---------------------------- MODULE Spec2Model ----------------------------
\* tiny-request-router (src/src/router.ts): a table of routes, appended to
\* by all/get/post/put/patch/delete/head/options through _push, and the
\* two queries match and matchAll.
\*
\* Strings are sequences of one-character strings, so that comparisons
\* (route.path === WILDCARD), captures (substrings of the request path) and
\* property names ("0", "n") are computed rather than assumed.
\*
\* router.ts compiles every pattern with pathToRegexp(path, keys, options)
\* of the path-to-regexp package and tests request paths with
\* RegExp.prototype.exec.  Both are modelled here for the pattern syntax
\* the inputs use: literal text, ":name" parameters, parenthesised groups
\* and the "?" modifier, with the options `end` and `sensitive`.
EXTENDS Naturals, Sequences, FiniteSets, TLC

VARIABLES routes, last

vars == <<routes, last>>

-----------------------------------------------------------------------------
\* Bounds

\* the longest route table the model builds
MaxRoutes == 2

-----------------------------------------------------------------------------
\* JavaScript values

\* an object without own properties: {} (options), {} (params)
EmptyObject == [k \in {} |-> k]

\* o.k === v for an object o whose property k may be absent (undefined)
HasValue(o, k, v) == k \in DOMAIN o /\ o[k] = v

\* a value that is a number or a string (Key.name: string | number)
NumberName(n) == [num |-> n]
StringName(s) == [str |-> s]

\* String(n) for the small non-negative integers used as key names
DecimalDigits == <<"0", "1", "2", "3", "4", "5", "6", "7", "8", "9">>
NumberToString(n) == <<DecimalDigits[n + 1]>>

\* the property name under which params[key.name] stores: numbers become
\* their decimal string
PropertyKey(name) == IF "num" \in DOMAIN name THEN NumberToString(name.num) ELSE name.str

\* an array element that may be undefined: <<>> is undefined, <<s>> is s
Undefined == <<>>
Defined(s) == <<s>>

-----------------------------------------------------------------------------
\* path-to-regexp: parse
\*
\* The patterns registered below hold no escapes, no braces and no nested
\* groups; a modifier that follows no key is a TypeError.

\* characters a parameter name is made of (\w, over the model's alphabet)
WordChars == {"a", "b", "n", "A", "0", "_"}
ModifierChars == {"*", "+", "?"}
\* the default delimiter class [\/#\?]
DelimiterChars == {"/", "#", "?"}
\* characters that make a ":name" or group token take the preceding
\* character as its prefix
PrefixChars == {".", "/"}

\* the default pattern of a named parameter, [^\/#\?]+?
DefaultPattern == <<"[", "^", "/", "]", "+", "?">>
\* the pattern of the group "(.*)"
AnyPattern == <<".", "*">>

RECURSIVE nameEnd(_, _)
\* the index after the longest run of name characters starting at j
nameEnd(str, j) ==
  IF j <= Len(str) /\ str[j] \in WordChars THEN nameEnd(str, j + 1) ELSE j

RECURSIVE patternEnd(_, _)
\* the index of the ")" closing a group whose body starts at j, 0 if none
patternEnd(str, j) ==
  IF j > Len(str) THEN 0
  ELSE IF str[j] = ")" THEN j
  ELSE patternEnd(str, j + 1)

TextToken(s) == [text |-> s]
IsText(tok) == "text" \in DOMAIN tok

\* result with pending literal text flushed
Flush(result, path) == IF path = <<>> THEN result ELSE Append(result, TextToken(path))

ParseError == [threw |-> TRUE, tokens |-> <<>>]

RECURSIVE parseFrom(_, _, _, _, _)

\* a key token is complete but for its modifier, which is the character at
\* i if that is one; the literal text before it is flushed first
parseKey(str, i, char, name, pattern, path, key, result) ==
  parseFrom(str,
            IF i <= Len(str) /\ str[i] \in ModifierChars THEN i + 1 ELSE i,
            <<>>,
            IF name = <<>> THEN key + 1 ELSE key,
            Append(Flush(result, IF char # <<>> /\ char[1] \in PrefixChars
                                 THEN path ELSE path \o char),
                   [name |-> IF name = <<>> THEN NumberName(key) ELSE StringName(name),
                    prefix |-> IF char # <<>> /\ char[1] \in PrefixChars
                               THEN char ELSE <<>>,
                    pattern |-> IF pattern = <<>> THEN DefaultPattern ELSE pattern,
                    modifier |-> IF i <= Len(str) /\ str[i] \in ModifierChars
                                 THEN <<str[i]>> ELSE <<>>]))

\* a group whose body starts at i and is closed at close (0: not closed)
parsePattern(str, i, close, char, name, path, key, result) ==
  IF close = 0 \/ close = i THEN ParseError
  ELSE parseKey(str, close + 1, char, name, SubSeq(str, i, close - 1), path, key, result)

\* after the optional character and the optional name: an optional group
parseAfterName(str, i, char, name, path, key, result) ==
  IF i <= Len(str) /\ str[i] = "("
  THEN parsePattern(str, i + 1, patternEnd(str, i + 1), char, name, path, key, result)
  ELSE IF name # <<>> THEN parseKey(str, i, char, name, <<>>, path, key, result)
  ELSE IF char # <<>> THEN parseFrom(str, i, path \o char, key, result)
  ELSE ParseError

\* a name that starts at i and ends before j
parseName(str, i, j, char, path, key, result) ==
  IF j = i THEN ParseError
  ELSE parseAfterName(str, j, char, SubSeq(str, i, j - 1), path, key, result)

\* after the optional character: an optional ":name"
parseAfterChar(str, i, char, path, key, result) ==
  IF i <= Len(str) /\ str[i] = ":"
  THEN parseName(str, i + 1, nameEnd(str, i + 1), char, path, key, result)
  ELSE parseAfterName(str, i, char, <<>>, path, key, result)

\* parse(str): the token list of a pattern, or a TypeError.
\* i: next character, path: pending literal text, key: next group index
parseFrom(str, i, path, key, result) ==
  IF i > Len(str) THEN [threw |-> FALSE, tokens |-> Flush(result, path)]
  ELSE IF str[i] \notin (ModifierChars \cup {":", "("})
  THEN parseAfterChar(str, i + 1, <<str[i]>>, path, key, result)
  ELSE parseAfterChar(str, i, <<>>, path, key, result)

parse(str) == parseFrom(str, 1, <<>>, 0, <<>>)

-----------------------------------------------------------------------------
\* path-to-regexp: tokensToRegexp, and RegExp.prototype.exec on its result

\* new RegExp(source) throws a SyntaxError on a group that starts with a
\* quantifier ("nothing to repeat")
IsSyntaxError(pattern) == pattern[1] \in ModifierChars

\* the i flag: letters compare by their lower-case form
ToLowerCase(c) == IF c = "A" THEN "a" ELSE c

\* the character c of the source matches the character d of the input
CharMatches(re, c, d) ==
  IF re.sensitive THEN c = d ELSE ToLowerCase(c) = ToLowerCase(d)

\* the literal lit matches the input str at position pos
LiteralAt(re, lit, str, pos) ==
  /\ pos + Len(lit) - 1 <= Len(str)
  /\ \A j \in 1..Len(lit) : CharMatches(re, lit[j], str[pos + j - 1])

NoMatch == [ok |-> FALSE, caps |-> <<>>, endpos |-> 0]

\* what follows the last token: [\/#\?]?$ when end is set, otherwise an
\* optional final delimiter and, unless the pattern ends in a delimiter, a
\* lookahead for a delimiter or the end of the input
matchEnd(re, str, pos, caps) ==
  LET n == Len(str)
      atFinalDelimiter == pos = n /\ str[pos] \in DelimiterChars
  IN
  IF atFinalDelimiter THEN [ok |-> TRUE, caps |-> caps, endpos |-> n + 1]
  ELSE IF pos = n + 1 THEN [ok |-> TRUE, caps |-> caps, endpos |-> pos]
  ELSE IF re.end THEN NoMatch
  ELSE IF re.endDelimited \/ str[pos] \in DelimiterChars
  THEN [ok |-> TRUE, caps |-> caps, endpos |-> pos]
  ELSE NoMatch

RECURSIVE matchTokens(_, _, _, _, _)
RECURSIVE matchLazy(_, _, _, _, _, _)
RECURSIVE matchGreedy(_, _, _, _, _, _)

\* the group of token k captures str[from..from+n-1], then the rest matches
matchRest(re, str, k, from, n, caps) ==
  matchTokens(re, str, k + 1, from + n,
              Append(caps, Defined(SubSeq(str, from, from + n - 1))))

\* [^\/#\?]+? : the shortest run of n or more non-delimiters that lets the
\* rest match
matchLazy(re, str, k, from, n, caps) ==
  IF from + n - 1 > Len(str) \/ str[from + n - 1] \in DelimiterChars THEN NoMatch
  ELSE LET r == matchRest(re, str, k, from, n, caps)
       IN IF r.ok THEN r ELSE matchLazy(re, str, k, from, n + 1, caps)

\* .* : the longest run of at most n characters that lets the rest match
matchGreedy(re, str, k, from, n, caps) ==
  LET r == matchRest(re, str, k, from, n, caps)
  IN IF r.ok THEN r
     ELSE IF n = 0 THEN NoMatch
     ELSE matchGreedy(re, str, k, from, n - 1, caps)

\* the tokens from k on match str from pos on; caps are the groups so far
matchTokens(re, str, k, pos, caps) ==
  IF k > Len(re.tokens) THEN matchEnd(re, str, pos, caps)
  ELSE
    LET tok == re.tokens[k] IN
    IF IsText(tok)
    THEN IF LiteralAt(re, tok.text, str, pos)
         THEN matchTokens(re, str, k + 1, pos + Len(tok.text), caps)
         ELSE NoMatch
    ELSE
      LET from == pos + Len(tok.prefix)
          taken ==
            IF ~LiteralAt(re, tok.prefix, str, pos) THEN NoMatch
            ELSE IF tok.pattern = DefaultPattern
            THEN matchLazy(re, str, k, from, 1, caps)
            ELSE IF tok.pattern = AnyPattern
            THEN matchGreedy(re, str, k, from, Len(str) - from + 1, caps)
            ELSE IF LiteralAt(re, tok.pattern, str, from)
            THEN matchRest(re, str, k, from, Len(tok.pattern), caps)
            ELSE NoMatch
      IN
      IF taken.ok \/ tok.modifier # <<"?">> THEN taken
      ELSE matchTokens(re, str, k + 1, pos, Append(caps, Undefined))

\* regexp.exec(str): null, or the array of the whole match followed by one
\* element per group, undefined for a group that took no part
exec(re, str) ==
  LET r == matchTokens(re, str, 1, 1, <<>>)
  IN IF r.ok
     THEN [isNull |-> FALSE,
           matches |-> <<Defined(SubSeq(str, 1, r.endpos - 1))>> \o r.caps]
     ELSE [isNull |-> TRUE, matches |-> <<>>]

\* the tokens that are keys, in order (keys.push(token))
SelectKeys(tokens) == SelectSeq(tokens, LAMBDA tok : ~IsText(tok))

\* the pattern ends in a delimiter (or is empty), so no lookahead is needed
\* when end is false
IsEndDelimited(tokens) ==
  \/ tokens = <<>>
  \/ /\ IsText(tokens[Len(tokens)])
     /\ tokens[Len(tokens)].text[Len(tokens[Len(tokens)].text)] \in DelimiterChars

\* pathToRegexp(path, keys, options): fills keys and returns the RegExp, or
\* throws what parse or new RegExp throws
pathToRegexp(path, options) ==
  LET parsed == parse(path)
      keys == SelectKeys(parsed.tokens)
  IN
  IF parsed.threw \/ \E i \in 1..Len(keys) : IsSyntaxError(keys[i].pattern)
  THEN [threw |-> TRUE, keys |-> <<>>, regexp |-> EmptyObject]
  ELSE [threw |-> FALSE,
        keys |-> keys,
        regexp |-> [tokens |-> parsed.tokens,
                    end |-> ~HasValue(options, "end", FALSE),
                    sensitive |-> HasValue(options, "sensitive", TRUE),
                    endDelimited |-> IsEndDelimited(parsed.tokens)]]

-----------------------------------------------------------------------------
\* router.ts

\* the pattern strings router.ts compares against
STAR == <<"*">>
WILDCARD == <<"(", ".", "*", ")">>
ROOT == <<"/">>

\* the methods the registration functions pass to _push
Methods == {"GET", "POST", "PUT", "PATCH", "DELETE", "HEAD", "OPTIONS"}
MethodWildcard == "ALL"

\* _push adding the route before the pattern is compiled
_push_beforeCompile(rs, method, path, handler, options) ==
  LET path1 == IF path = STAR THEN WILDCARD ELSE path
      compiled == pathToRegexp(path1, options)
      fallback == pathToRegexp(ROOT, options)
  IN
  [threw |-> compiled.threw,
   routes |-> Append(rs, [method |-> method, path |-> path1, handler |-> handler,
                          keys |-> compiled.keys, options |-> options,
                          regexp |-> IF compiled.threw THEN fallback.regexp
                                     ELSE compiled.regexp])]

\* _push adding the route at the front of the table
_push_unshift(rs, method, path, handler, options) ==
  LET path1 == IF path = STAR THEN WILDCARD ELSE path
      compiled == pathToRegexp(path1, options)
  IN
  IF compiled.threw THEN [threw |-> TRUE, routes |-> rs]
  ELSE [threw |-> FALSE,
        routes |-> <<[method |-> method, path |-> path1,
                      handler |-> handler, keys |-> compiled.keys,
                      options |-> options, regexp |-> compiled.regexp]>> \o rs]

\* _push storing the path as passed and compiling the normalised one
_push_keepOriginal(rs, method, path, handler, options) ==
  LET path1 == IF path = STAR THEN WILDCARD ELSE path
      compiled == pathToRegexp(path1, options)
  IN
  IF compiled.threw THEN [threw |-> TRUE, routes |-> rs]
  ELSE [threw |-> FALSE,
        routes |-> Append(rs, [method |-> method, path |-> path,
                               handler |-> handler, keys |-> compiled.keys,
                               options |-> options, regexp |-> compiled.regexp])]

\* _push: the table after the call, or the exception of pathToRegexp with
\* the table as it was
_push(rs, method, path, handler, options) ==
  LET path1 == IF path = STAR THEN WILDCARD ELSE path
      compiled == pathToRegexp(path1, options)
  IN
  IF compiled.threw THEN [threw |-> TRUE, routes |-> rs]
  ELSE [threw |-> FALSE,
        routes |-> Append(rs, [method |-> method, path |-> path1,
                               handler |-> handler, keys |-> compiled.keys,
                               options |-> options, regexp |-> compiled.regexp])]

RECURSIVE keysToParamsFrom(_, _, _, _)
\* the loop of keysToParams from index i of matches (the whole match is
\* matches[1] here, matches[0] in the source); reading .name of a key that
\* is not there throws a TypeError
keysToParamsFrom(matches, keys, i, params) ==
  IF i > Len(matches) THEN [threw |-> FALSE, params |-> params]
  ELSE IF i - 1 > Len(keys) THEN [threw |-> TRUE, params |-> EmptyObject]
  ELSE
    LET prop == PropertyKey(keys[i - 1].name)
        val == matches[i]
    IN keysToParamsFrom(matches, keys, i + 1,
                        IF val # Undefined THEN (prop :> val[1]) @@ params ELSE params)

RECURSIVE keysToParamsFrom_firstWins(_, _, _, _)
\* the loop keeping the value a property already has
keysToParamsFrom_firstWins(matches, keys, i, params) ==
  IF i > Len(matches) THEN [threw |-> FALSE, params |-> params]
  ELSE IF i - 1 > Len(keys) THEN [threw |-> TRUE, params |-> EmptyObject]
  ELSE
    LET prop == PropertyKey(keys[i - 1].name)
        val == matches[i]
    IN keysToParamsFrom_firstWins(matches, keys, i + 1,
                        IF val # Undefined THEN params @@ (prop :> val[1]) ELSE params)

keysToParams_firstWins(matches, keys) ==
  keysToParamsFrom_firstWins(matches, keys, 2, EmptyObject)

RECURSIVE keysToParamsFrom_offByOne(_, _, _, _)
\* the loop reading keys[i] for the capture i
keysToParamsFrom_offByOne(matches, keys, i, params) ==
  IF i > Len(matches) THEN [threw |-> FALSE, params |-> params]
  ELSE IF i > Len(keys) THEN [threw |-> TRUE, params |-> EmptyObject]
  ELSE
    LET prop == PropertyKey(keys[i].name)
        val == matches[i]
    IN keysToParamsFrom_offByOne(matches, keys, i + 1,
                        IF val # Undefined THEN (prop :> val[1]) @@ params ELSE params)

keysToParams_offByOne(matches, keys) ==
  keysToParamsFrom_offByOne(matches, keys, 2, EmptyObject)

keysToParams(matches, keys) == keysToParamsFrom(matches, keys, 2, EmptyObject)

\* { ...route, params } and { ...route, matches, params }
WithParams(route, params) == route @@ [params |-> params]
WithMatches(route, matches, params) ==
  route @@ [matches |-> matches, params |-> params]

\* toUpperCase() of a method string
MethodToUpperCase(method) == IF method = "get" THEN "GET" ELSE method

\* the method test comparing without regard to case
SkipMethod_ignoreCase(route, method) ==
  route.method # MethodToUpperCase(method) /\ route.method # MethodWildcard

\* the method test both loops start with
SkipMethod(route, method) == route.method # method /\ route.method # MethodWildcard

\* the catch-all test comparing with the pattern as callers write it
IsCatchAll_star(route) == route.path = STAR

\* the two tests of match that return without running the RegExp
IsCatchAll(route) == route.path = WILDCARD
IsRootNotEnd(route) == route.path = ROOT /\ HasValue(route.options, "end", FALSE)

Null == <<>>

RECURSIVE matchFrom(_, _, _, _)
\* the loop of match from route i on: null (<<>>) or the one RouteMatch
matchFrom(rs, i, method, path) ==
  IF i > Len(rs) THEN [threw |-> FALSE, ret |-> Null]
  ELSE
    LET route == rs[i] IN
    IF SkipMethod(route, method) THEN matchFrom(rs, i + 1, method, path)
    ELSE IF IsCatchAll(route)
    THEN [threw |-> FALSE,
          ret |-> <<WithParams(route, NumberToString(0) :> route.path)>>]
    ELSE IF IsRootNotEnd(route)
    THEN [threw |-> FALSE, ret |-> <<WithParams(route, EmptyObject)>>]
    ELSE
      LET found == exec(route.regexp, path) IN
      IF found.isNull \/ Len(found.matches) = 0
      THEN matchFrom(rs, i + 1, method, path)
      ELSE
        LET p == keysToParams(found.matches, route.keys) IN
        IF p.threw THEN [threw |-> TRUE, ret |-> Null]
        ELSE [threw |-> FALSE,
              ret |-> <<WithMatches(route, found.matches, p.params)>>]

Reverse(seq) == [i \in 1..Len(seq) |-> seq[Len(seq) + 1 - i]]

\* match walking the table from its last route to its first
match_lastFirst(rs, method, path) == matchFrom(Reverse(rs), 1, method, path)

match(rs, method, path) == matchFrom(rs, 1, method, path)

RECURSIVE matchAllFrom(_, _, _, _, _)
\* the loop of matchAll from route i on, acc being the local array routes
matchAllFrom(rs, i, method, path, acc) ==
  IF i > Len(rs) THEN [threw |-> FALSE, ret |-> acc]
  ELSE
    LET route == rs[i] IN
    IF SkipMethod(route, method) THEN matchAllFrom(rs, i + 1, method, path, acc)
    ELSE
      LET found == exec(route.regexp, path) IN
      IF found.isNull \/ Len(found.matches) = 0
      THEN matchAllFrom(rs, i + 1, method, path, acc)
      ELSE
        LET p == keysToParams(found.matches, route.keys) IN
        IF p.threw THEN [threw |-> TRUE, ret |-> <<>>]
        ELSE matchAllFrom(rs, i + 1, method, path,
                          Append(acc, WithMatches(route, found.matches, p.params)))

\* matchAll returning after the first route it finds
matchAll_firstOnly(rs, method, path) ==
  LET r == matchAllFrom(rs, 1, method, path, <<>>)
  IN [threw |-> r.threw, ret |-> IF r.ret = <<>> THEN <<>> ELSE <<r.ret[1]>>]

matchAll(rs, method, path) == matchAllFrom(rs, 1, method, path, <<>>)

-----------------------------------------------------------------------------
\* The router as a state machine: routes is Router.routes, last records the
\* most recent call with its arguments and its outcome.

\* options objects the callers pass
NoOptions == EmptyObject
NotEnd == [end |-> FALSE]
Sensitive == [sensitive |-> TRUE]

\* a pattern new RegExp rejects: the group starts with a quantifier
BadPattern == <<"/", "(", "*", ")">>

\* (path, options) arguments given to get
GetInputs ==
  { <<STAR, NoOptions>>,
    <<ROOT, NotEnd>>,
    <<<<"/", "a">>, NoOptions>>,
    <<<<"/", ":", "n", "/", ":", "n">>, NoOptions>>,
    <<<<"/", "a", "/", "(", "b", ")", "?">>, Sensitive>>,
    <<<<"/", ":", "0", "/", "(", ".", "*", ")">>, NoOptions>>,
    <<BadPattern, NoOptions>> }

\* (path, options) arguments given to all
AllInputs ==
  { <<STAR, NoOptions>>,
    <<<<"/", "a">>, NoOptions>>,
    <<BadPattern, NoOptions>> }

\* (path, options) arguments given to the other registration functions
PlainInputs ==
  { <<<<"/", "a">>, NoOptions>>,
    <<BadPattern, NoOptions>> }

\* every call passes a handler no earlier call passed: the number of the
\* registration
HandlerInputs(rs) == {Len(rs) + 1}

\* requests: a method some route has, one only the plain routes have, and
\* one no registration function passes
RequestMethods == {"GET", "HEAD", "get"}
RequestPaths ==
  { <<"/">>,
    <<"/", "a">>,
    <<"/", "A">>,
    <<"/", "a", "/", "b">>,
    <<"a">> }

Init ==
  /\ routes = <<>>
  /\ last = [op |-> "new"]

\* a registration function: return this._push(method, path, handler, options)
Register(op, method, path, handler, options) ==
  /\ Len(routes) < MaxRoutes
  /\ LET r == _push(routes, method, path, handler, options) IN
     /\ routes' = r.routes
     /\ last' = [op |-> op, method |-> method, path |-> path, handler |-> handler,
                 options |-> options, threw |-> r.threw]

all(path, handler, options) == Register("all", "ALL", path, handler, options)
get(path, handler, options) == Register("get", "GET", path, handler, options)
post(path, handler, options) == Register("post", "POST", path, handler, options)
put(path, handler, options) == Register("put", "PUT", path, handler, options)
patch(path, handler, options) == Register("patch", "PATCH", path, handler, options)
delete(path, handler, options) == Register("delete", "DELETE", path, handler, options)
head(path, handler, options) == Register("head", "HEAD", path, handler, options)
options(path, handler, opts) == Register("options", "OPTIONS", path, handler, opts)

Match(method, path) ==
  /\ LET r == match(routes, method, path) IN
     last' = [op |-> "match", method |-> method, path |-> path,
              threw |-> r.threw, ret |-> r.ret]
  /\ UNCHANGED routes

MatchAll(method, path) ==
  /\ LET r == matchAll(routes, method, path) IN
     last' = [op |-> "matchAll", method |-> method, path |-> path,
              threw |-> r.threw, ret |-> r.ret]
  /\ UNCHANGED routes

CallAll == \E in \in AllInputs, h \in HandlerInputs(routes) : all(in[1], h, in[2])
CallGet == \E in \in GetInputs, h \in HandlerInputs(routes) : get(in[1], h, in[2])
CallPost == \E in \in PlainInputs, h \in HandlerInputs(routes) : post(in[1], h, in[2])
CallPut == \E in \in PlainInputs, h \in HandlerInputs(routes) : put(in[1], h, in[2])
CallPatch == \E in \in PlainInputs, h \in HandlerInputs(routes) : patch(in[1], h, in[2])
CallDelete == \E in \in PlainInputs, h \in HandlerInputs(routes) : delete(in[1], h, in[2])
CallHead == \E in \in PlainInputs, h \in HandlerInputs(routes) : head(in[1], h, in[2])
CallOptions == \E in \in PlainInputs, h \in HandlerInputs(routes) : options(in[1], h, in[2])
CallMatch == \E m \in RequestMethods, p \in RequestPaths : Match(m, p)
CallMatchAll == \E m \in RequestMethods, p \in RequestPaths : MatchAll(m, p)

Next ==
  \/ CallAll \/ CallGet \/ CallPost \/ CallPut \/ CallPatch
  \/ CallDelete \/ CallHead \/ CallOptions
  \/ CallMatch \/ CallMatchAll

Spec == Init /\ [][Next]_vars

-----------------------------------------------------------------------------
\* Vocabulary of the properties

RegistrationOps == {"all", "get", "post", "put", "patch", "delete", "head", "options"}
IsRegistration(call) == call.op \in RegistrationOps
IsQuery(call) == call.op \in {"match", "matchAll"}

\* the route passes the method filter of a request
MethodPasses(route, method) == route.method = method \/ route.method = "ALL"

\* the compiled matcher of the route accepts the path
MatcherAccepts(route, path) == ~exec(route.regexp, path).isNull

\* the route satisfies a request in the sense of match: method, and one of
\* wildcard pattern, root pattern with end === false, matcher
Satisfies(route, method, path) ==
  /\ MethodPasses(route, method)
  /\ \/ route.path = WILDCARD
     \/ route.path = ROOT /\ "end" \in DOMAIN route.options /\ route.options.end = FALSE
     \/ MatcherAccepts(route, path)

\* the RouteMatch m carries every field of the route r unchanged
IsMatchOf(m, r) == \A f \in DOMAIN r : f \in DOMAIN m /\ m[f] = r[f]

Min(S) == CHOOSE x \in S : \A y \in S : x <= y

\* the indices of the routes satisfying the last request
SatisfyingIndices ==
  {i \in 1..Len(routes) : Satisfies(routes[i], last.method, last.path)}

\* the routes that pass the method filter and whose matcher accepts the last
\* request, in table order
QualifyingRoutes ==
  SelectSeq(routes, LAMBDA r : MethodPasses(r, last.method) /\ MatcherAccepts(r, last.path))

-----------------------------------------------------------------------------
\* C1: match returns the route with the smallest registration index that
\* passes the method filter and whose path is the wildcard pattern, or is the
\* root with end === false, or whose matcher accepts the path; it returns
\* null exactly when no route does.
C1_FirstRegisteredWins ==
  last.op = "match" =>
    /\ ~last.threw
    /\ IF SatisfyingIndices = {} THEN last.ret = Null
       ELSE /\ Len(last.ret) = 1
            /\ IsMatchOf(last.ret[1], routes[Min(SatisfyingIndices)])

\* the same pattern registered twice for the requested method: the first
\* handler is returned
C1_Witness ==
  /\ last.op = "match"
  /\ Len(routes) = 2
  /\ routes[1].path = routes[2].path
  /\ routes[1].method = routes[2].method
  /\ routes[1].method = last.method
  /\ last.ret # Null
  /\ last.ret[1].handler = routes[1].handler
  /\ last.ret[1].handler # routes[2].handler

\* C2: matchAll returns exactly the routes that pass the method filter and
\* whose matcher accepts the path, once per registration and in registration
\* order; an empty list when there are none.
C2_AllQualifyingInOrder ==
  last.op = "matchAll" =>
    /\ ~last.threw
    /\ Len(last.ret) = Len(QualifyingRoutes)
    /\ \A j \in 1..Len(last.ret) : IsMatchOf(last.ret[j], QualifyingRoutes[j])

\* both registrations of one pattern are returned, first one first
C2_Witness ==
  /\ last.op = "matchAll"
  /\ Len(routes) = 2
  /\ routes[1].path = routes[2].path
  /\ Len(last.ret) = 2
  /\ last.ret[1].handler = routes[1].handler
  /\ last.ret[2].handler = routes[2].handler

\* C3: a route registered with all is eligible for every requested method, a
\* route registered for one method only for exactly that method string; a
\* requested method that no registration function uses gets ALL routes only,
\* and nothing when there are none.
C3_MethodFilter ==
  IsQuery(last) =>
    /\ \A j \in 1..Len(last.ret) :
         last.ret[j].method = last.method \/ last.ret[j].method = "ALL"
    /\ last.method \notin Methods =>
         /\ \A j \in 1..Len(last.ret) : last.ret[j].method = "ALL"
         /\ (\A i \in 1..Len(routes) : routes[i].method # "ALL") => last.ret = <<>>
    /\ \A i \in 1..Len(routes) :
         routes[i].method = "ALL" /\ MatcherAccepts(routes[i], last.path) =>
           /\ last.ret # <<>>
           /\ last.op = "matchAll" =>
                \E j \in 1..Len(last.ret) : last.ret[j].handler = routes[i].handler

\* a request for "get" passes over a GET route that accepts the path and is
\* answered by the ALL route behind it
C3_Witness ==
  /\ last.op = "match"
  /\ last.method = "get"
  /\ Len(routes) = 2
  /\ routes[1].method = "GET"
  /\ MatcherAccepts(routes[1], last.path)
  /\ routes[2].method = "ALL"
  /\ last.ret # Null
  /\ last.ret[1].handler = routes[2].handler

\* C4: a route registered as "*" answers match for every path when its method
\* passes and no earlier route satisfies the request, with params holding the
\* single key "0" whose value is the route's stored path; when its method does
\* not pass, it is not the route returned.
C4_CatchAll ==
  last.op = "match" =>
    \A i \in 1..Len(routes) :
      routes[i].path = WILDCARD =>
        IF MethodPasses(routes[i], last.method)
        THEN (\A j \in 1..(i - 1) : ~Satisfies(routes[j], last.method, last.path)) =>
               /\ Len(last.ret) = 1
               /\ last.ret[1].handler = routes[i].handler
               /\ DOMAIN last.ret[1].params = {<<"0">>}
               /\ last.ret[1].params[<<"0">>] = routes[i].path
        ELSE last.ret = Null \/ last.ret[1].handler # routes[i].handler

\* a GET route registered as "*" answers a path without a leading slash, and
\* reports its own pattern as the captured value
C4_Witness ==
  /\ last.op = "match"
  /\ last.method = "GET"
  /\ last.path = <<"a">>
  /\ Len(routes) = 1
  /\ routes[1].method = "GET"
  /\ routes[1].path = WILDCARD
  /\ last.ret # Null
  /\ last.ret[1].params[<<"0">>] = WILDCARD
  /\ last.ret[1].params[<<"0">>] # last.path

\* the RouteMatch values of the last query that went through the matcher
GeneralMatches ==
  {j \in 1..Len(last.ret) : "matches" \in DOMAIN last.ret[j]}

\* the property name of the key paired with capture i (matches[i], the whole
\* match being matches[1])
PropertyOf(m, i) == PropertyKey(m.keys[i - 1].name)
Captures(m) == 2..Len(m.matches)
DefinedCaptures(m) == {i \in Captures(m) : m.matches[i] # Undefined}

Max(S) == CHOOSE x \in S : \A y \in S : x >= y

CompilerRejects(call) ==
  pathToRegexp(IF call.path = STAR THEN WILDCARD ELSE call.path, call.options).threw

\* C6: a registration whose pattern the compiler rejects throws and leaves the
\* table, and so every answer of match and matchAll, as it was.
C6_AtomicRejection ==
  [][IsRegistration(last') /\ CompilerRejects(last') =>
       /\ last'.threw
       /\ routes' = routes
       /\ \A m \in RequestMethods, p \in RequestPaths :
            /\ match(routes', m, p) = match(routes, m, p)
            /\ matchAll(routes', m, p) = matchAll(routes, m, p)]_vars

\* a rejected registration on a table that already holds a route
C6_Witness ==
  /\ IsRegistration(last)
  /\ last.threw
  /\ last.path = BadPattern
  /\ Len(routes) = 1

\* C7: match and matchAll never throw; they return null and the empty list
\* when no route satisfies the request; and every RouteMatch built from the
\* matcher has one key per capture.
C7_MatchingIsTotal ==
  IsQuery(last) =>
    /\ ~last.threw
    /\ SatisfyingIndices = {} => last.ret = <<>>
    /\ \A j \in GeneralMatches :
         Len(last.ret[j].keys) = Len(last.ret[j].matches) - 1

\* matchAll builds params from two captures, and a request no route
\* satisfies was answered before by the same table
C7_Witness ==
  /\ last.op = "matchAll"
  /\ ~last.threw
  /\ \E j \in 1..Len(last.ret) : Len(last.ret[j].matches) = 3
  /\ \E p \in RequestPaths : matchAll(routes, last.method, p).ret = <<>>

\* C8: the table starts empty, a successful registration adds exactly its one
\* route at the end, and nothing else changes the table.
C8_AppendOnly ==
  /\ routes = <<>>
  /\ [][IF IsRegistration(last') /\ ~last'.threw
        THEN /\ Len(routes') = Len(routes) + 1
             /\ SubSeq(routes', 1, Len(routes)) = routes
             /\ routes'[Len(routes')].method = last'.method
             /\ routes'[Len(routes')].handler = last'.handler
             /\ routes'[Len(routes')].options = last'.options
        ELSE routes' = routes]_vars

\* two registrations in call order, then a query that left them in place
C8_Witness ==
  /\ IsQuery(last)
  /\ Len(routes) = 2
  /\ routes[1].handler = 1
  /\ routes[2].handler = 2
  /\ routes[1].method # routes[2].method

\* C9 as stated: the stored route has the path exactly as the caller passed
\* it.
C9_PathAsPassed ==
  IsRegistration(last) /\ ~last.threw => routes[Len(routes)].path = last.path

\* C9 (amended): the stored route has the path as passed, except that "*" is
\* stored as the wildcard pattern; a RouteMatch has the path of its route.
C9_PathAsNormalised ==
  /\ IsRegistration(last) /\ ~last.threw =>
       routes[Len(routes)].path = (IF last.path = STAR THEN WILDCARD ELSE last.path)
  /\ IsQuery(last) =>
       \A j \in 1..Len(last.ret) :
         \E i \in 1..Len(routes) :
           routes[i].handler = last.ret[j].handler /\ routes[i].path = last.ret[j].path

\* "*" was registered and is stored as the wildcard pattern
C9_Witness ==
  /\ IsRegistration(last)
  /\ ~last.threw
  /\ last.path = STAR
  /\ routes[Len(routes)].path = WILDCARD

\* C10 as stated: match is non-null exactly when matchAll is non-empty, and
\* then returns the first element of matchAll, with the same params.
C10_MatchIsFirstOfMatchAll ==
  last.op = "match" =>
    LET every == matchAll(routes, last.method, last.path).ret IN
    /\ last.ret # Null <=> every # <<>>
    /\ last.ret # Null =>
         /\ every[1].handler = last.ret[1].handler
         /\ every[1].params = last.ret[1].params

=============================================================================
